---- MODULE Spec2Model ----
(***************************************************************************)
(* Model of src/index.js: the contract-analysis backend.                   *)
(*                                                                         *)
(* Five HTTP handlers share the Firestore collection (store), the Stripe   *)
(* checkout sessions (sessions) and the in-memory map paymentTokens.       *)
(* Every handler is an async function: it runs atomically from one await   *)
(* to the next, and handlers of different requests interleave at their     *)
(* awaits.  A request is a slot of reqs whose pc names the await it is     *)
(* suspended at; one action models the code that runs when that await      *)
(* settles, with the outcome of the awaited call (value or throw) drawn    *)
(* nondeterministically.  The submit handler touches the shared state     *)
(* only where its save settles (everything before works on the request,   *)
(* its temporary file and the clock), so Analisar is one action that runs  *)
(* the handler up to its response.                                         *)
(***************************************************************************)
EXTENDS Integers, Sequences, FiniteSets, TLC

\* ------------------------------------------------------------------ bounds
NReq == 2          \* requests in flight at the same time
MaxSessions == 2   \* checkout sessions the gateway creates

\* ------------------------------------------------------- program constants
MaxFileSize == 10485760   \* multer limits.fileSize, 10 * 1024 * 1024
OkStatus == 200
BadRequest == 400
Forbidden == 403
NotFound == 404
ServerError == 500

\* ------------------------------------------------------------ input values
Req == 1..NReq
\* the instants Date.now() returns: the requests of a behaviour fall within
\* one millisecond, where the random part alone tells two tokens apart
Clock == {10}

PDF == <<"application", "pdf">>
PNG == <<"image", "png">>
\* declared media types a client may send, as <<type, subtype>>
Mimes == {PDF, PNG, <<"text", "plain">>, <<"application", "zip">>}
NoFile == [present |-> FALSE, mime |-> PDF, size |-> 0]
File(m, n) == [present |-> TRUE, mime |-> m, size |-> n]
Files == {NoFile} \cup {File(m, n) : m \in Mimes, n \in {1, MaxFileSize + 1}}
NoUid == ""
Uids == {NoUid, "u1"}
\* texts an extractor may return: empty, whitespace only, readable
Texts == {<<>>, <<" ">>, <<"x">>}
Blank(t) == \A i \in DOMAIN t : t[i] = " "
Resposta == "c1"

\* Math.random().toString(36).substr(2, 12): lower-case base-36 strings
Rands == {<<"a">>, <<"b">>}

DigitChars == <<"0", "1", "2", "3", "4", "5", "6", "7", "8", "9">>

RECURSIVE ToDigits(_)
\* Number-to-string conversion of Date.now() in the string concatenation
ToDigits(n) ==
  IF n < 10 THEN <<DigitChars[n + 1]>>
  ELSE ToDigits(n \div 10) \o <<DigitChars[(n % 10) + 1]>>

\* token = Math.random().toString(36).substr(2, 12) + Date.now()
TokenOf(rnd, ts) == rnd \o ToDigits(ts)

NoToken == <<>>
AllTokens == {TokenOf(rnd, ts) : rnd \in Rands, ts \in Clock}

\* --------------------------------------------------------------- documents
Clause(t) == [titulo |-> t, resumo |-> "r"]
Advice == "Considere consultar um advogado para revisar o contrato."

NoDoc ==
  [exists |-> FALSE, token |-> NoToken, uid |-> NoUid, data |-> 0,
   clausulas |-> "", resumoSeguras |-> <<>>, resumoRiscos |-> <<>>,
   recomendacoes |-> "", pago |-> FALSE, session_id |-> 0]

\* the JSON a classification response may carry; a list may be missing
Undef == [defined |-> FALSE, val |-> <<>>]
Def(l) == [defined |-> TRUE, val |-> l]
NoData == [seguras |-> Undef, riscos |-> Undef]
SomeData == [seguras |-> Def(<<Clause("s")>>), riscos |-> Undef]

\* outcomes of the self-call fetch('/api/resumir-clausulas'): the call
\* rejects, answers with a status that is not OK, answers with a body that
\* is no JSON, or answers with JSON
ClsThrow == [kind |-> "throw", data |-> NoData]
ClsOk == [kind |-> "ok", data |-> SomeData]
ClsOutcomes ==
  {ClsThrow, [kind |-> "notok", data |-> NoData],
   [kind |-> "jsonthrow", data |-> NoData], ClsOk}

\* --------------------------------------------------------------- responses
NoResp ==
  [status |-> 0, json |-> FALSE, error |-> "", token |-> NoToken,
   clausulas |-> "", liberado |-> FALSE, analise |-> NoDoc, url |-> 0]

ErrorResp(st, msg) == [NoResp EXCEPT !.status = st, !.json = TRUE, !.error = msg]

\* No error-handling middleware is registered: an error raised by the upload
\* middleware is answered by the framework, not by the handler.
FrameworkError == [NoResp EXCEPT !.status = ServerError, !.error = "framework"]

\* ---------------------------------------------------------------- requests
\* A request: its input (token, or file and uid), the handler's local
\* variables, and the response once pc = "done".
\*   handler    the handler was invoked (the upload middleware let it through)
\*   fileExists the temporary file of the upload is on disk
\*   extraction how the text extraction settled: "none", "threw", "ok"
\*   llm        the chat completion was requested
\*   tok        the token generated
\*   cls        how the classification settled ("none": it was not reached)
\*   saved      how the save settled: "none", "failed", "ok"
\*   written    the record passed to set(), once stored
\*   overwrote  set() replaced a record the store already held
\*   doc, read  the record read from the store, and that it was read
\*   queried    the gateway was asked for the session
\*   gatewayFailed  the request's call of the gateway rejected
\*   wrote      the request changed the store
IdleReq ==
  [op |-> "none", pc |-> "idle", token |-> NoToken,
   file |-> NoFile, uid |-> NoUid,
   handler |-> FALSE, fileExists |-> FALSE, extraction |-> "none",
   texto |-> <<>>, llm |-> FALSE,
   tok |-> NoToken, cls |-> "none", saved |-> "none", written |-> NoDoc,
   overwrote |-> FALSE,
   sid |-> 0, doc |-> NoDoc, read |-> FALSE, queried |-> FALSE,
   gatewayFailed |-> FALSE, wrote |-> FALSE, alone |-> FALSE, after |-> FALSE, resp |-> NoResp]

\* store, sessions, paymentTokens and reqs are the program's state.
\* confirmed is a history variable: the store as the last release-check that
\* answered liberado = true left it, kept for as long as nothing but
\* release-checks of the same token has run since; a request's field after
\* says that it started, and has run so far, in such a period.  It is set by
\* a release-check that ran alone: no step of another request fell between
\* its read and its update (the field alone).
VARIABLES store, sessions, paymentTokens, reqs, confirmed

vars == <<store, sessions, paymentTokens, reqs, confirmed>>

NoConfirm == [set |-> FALSE, token |-> NoToken, store |-> <<>>]

\* A request takes the first slot that holds no request in flight.
Free(r) ==
  /\ reqs[r].pc \in {"idle", "done"}
  /\ \A q \in Req : q < r => reqs[q].pc \notin {"idle", "done"}

\* Request r moves to rec.  A response stays in its slot until the next step
\* of any request, which releases the slots of the requests answered before.
Slots(r, rec, keep) ==
  [q \in Req |->
     IF q = r THEN rec
     ELSE IF reqs[q].pc = "done" THEN IdleReq
     ELSE IF keep THEN reqs[q]
     ELSE [reqs[q] EXCEPT !.alone = FALSE, !.after = FALSE]]

\* a step of an operation other than a release-check
Step(r, rec) ==
  /\ reqs' = Slots(r, [rec EXCEPT !.after = FALSE], FALSE)
  /\ confirmed' = NoConfirm

Respond(r, rec, resp) == Step(r, [rec EXCEPT !.pc = "done", !.resp = resp])

\* a step of a release-check of token t
StepLiberada(r, rec, t) ==
  IF confirmed.set /\ confirmed.token = t
    THEN reqs' = Slots(r, rec, TRUE) /\ UNCHANGED confirmed
    ELSE Step(r, rec)

RespondLiberada(r, rec, resp) ==
  StepLiberada(r, [rec EXCEPT !.pc = "done", !.resp = resp], rec.token)

Init ==
  /\ store = [t \in AllTokens |-> NoDoc]
  /\ sessions = <<>>
  /\ paymentTokens = {}
  /\ reqs = [r \in Req |-> IdleReq]
  /\ confirmed = NoConfirm

\* ------------------------------------------------- POST /api/analisar-contrato
\* The handler touches the store only in its last await, the save: the steps
\* before it read and write nothing but the request's own variables, the
\* temporary file and the clock.  It is one action, whose clock readings ts
\* (Date.now() of the token) and data (new Date() of the record) are any two
\* instants in that order: requests overlap, so a request may save after
\* another that read the clock later.  U names the sets its inputs and the
\* outcomes of its awaited calls are drawn from.

\* (mutant of FileFilter: text/plain passes too)
FileFilterPlainText(mime) ==
  mime = PDF \/ mime[1] = "image" \/ mime = <<"text", "plain">>

\* multer fileFilter: application/pdf, or a type that starts with "image/"
FileFilter(mime) == mime = PDF \/ mime[1] = "image"

\* upload.single('file'): "none" (no file part), "stored", or "rejected"
\* (the filter refused the type, or the file is larger than limits.fileSize)
Upload(file) ==
  IF ~file.present THEN "none"
  ELSE IF ~FileFilter(file.mime) THEN "rejected"
  ELSE IF file.size > MaxFileSize THEN "rejected"
  ELSE "stored"

\* (mutant of Validate: the uid is not checked)
ValidateNoUidCheck(hasFile, uid, mime) ==
  IF ~hasFile THEN "nofile"
  ELSE IF mime = PDF THEN "pdf"
  ELSE IF mime[1] = "image" THEN "image"
  ELSE "unsupported"

\* the handler's checks before its first await
Validate(hasFile, uid, mime) ==
  IF ~hasFile THEN "nofile"
  ELSE IF uid = NoUid THEN "nouid"
  ELSE IF mime = PDF THEN "pdf"
  ELSE IF mime[1] = "image" THEN "image"
  ELSE "unsupported"

Throw == [threw |-> TRUE, text |-> <<>>]
Text(t) == [threw |-> FALSE, text |-> t]
\* what the PDF parser or the OCR engine may do
RawExtractions == {Throw} \cup {Text(t) : t \in Texts}

\* extractTextFromPDF throws when the parser throws or returns no text;
\* extractTextFromImage returns whatever the OCR engine recognised
ExtractText(mime, raw) ==
  IF mime = PDF
    THEN IF raw.threw \/ raw.text = <<>> THEN Throw ELSE raw
    ELSE raw

OrEmpty(x) == IF x.defined THEN x.val ELSE <<>>

\* (mutant of Resumo: a classification that did not succeed fails the request)
ResumoAborting(o) ==
  [failed |-> o.kind # "ok",
   seguras |-> OrEmpty(o.data.seguras), riscos |-> OrEmpty(o.data.riscos),
   recomendacoes |-> Advice]

\* the try block around the self-call: the two lists and the recommendation
\* it leaves behind; it never fails the request
Resumo(o) ==
  [failed |-> FALSE,
   seguras |-> IF o.kind = "ok" THEN OrEmpty(o.data.seguras) ELSE <<>>,
   riscos |-> IF o.kind = "ok" THEN OrEmpty(o.data.riscos) ELSE <<>>,
   recomendacoes |-> IF o.kind \in {"ok", "notok"} THEN Advice ELSE ""]

\* (mutant of SetDoc: the write is acknowledged but not applied)
SetDocDropped(st, token, doc) == st

\* doc(token).set(record): the record replaces whatever the token held
SetDoc(st, token, doc) == [st EXCEPT ![token] = doc]

\* an exit that leaves the store as it is
Fail(r, rec, resp) ==
  /\ Respond(r, rec, resp)
  /\ UNCHANGED <<store, paymentTokens>>

ProcessingError == ErrorResp(ServerError, "Erro ao processar o contrato: ")

\* The save settles: on success the token enters paymentTokens and the
\* client gets {clausulas, token}.
Save(r, rec, U) ==
  \E ok \in U.saves :
    IF ok
      THEN /\ store' = SetDoc(store, rec.tok, rec.written)
           /\ paymentTokens' = paymentTokens \cup {rec.tok}
           /\ Respond(r, [rec EXCEPT !.saved = "ok", !.wrote = TRUE,
                                     !.overwrote = store[rec.tok].exists],
                      [NoResp EXCEPT !.status = OkStatus, !.json = TRUE,
                                     !.clausulas = Resposta, !.token = rec.tok])
      ELSE Fail(r, [rec EXCEPT !.saved = "failed", !.written = NoDoc], ProcessingError)

\* The classification settles; the record is built and its save requested.
Classification(r, rec, ts, U) ==
  \E o \in U.cls, data \in {d \in Clock : d >= ts} :
    LET res == Resumo(o)
        doc == [exists |-> TRUE, token |-> rec.tok, uid |-> rec.uid,
                data |-> data, clausulas |-> Resposta,
                resumoSeguras |-> res.seguras, resumoRiscos |-> res.riscos,
                recomendacoes |-> res.recomendacoes,
                pago |-> FALSE, session_id |-> 0]
    IN IF res.failed
         THEN Fail(r, [rec EXCEPT !.cls = o.kind], ProcessingError)
         ELSE Save(r, [rec EXCEPT !.cls = o.kind, !.written = doc], U)

\* The chat completion settles: it throws, answers without a choice, or
\* answers.  After a resolved call the temporary file is unlinked (unlinked
\* = FALSE: unlinkSync threw and the error was logged), the answer is read,
\* the token is generated and the classification is requested.
Completion(r, rec, U) ==
  \E outcome \in U.completions :
    IF outcome = "throw" THEN Fail(r, rec, ProcessingError)
    ELSE \E unlinked \in U.unlinks :
      LET cleaned == [rec EXCEPT !.fileExists = ~unlinked]
      IN IF outcome = "nochoices" THEN Fail(r, cleaned, ProcessingError)
         ELSE \E rnd \in U.rands, ts \in Clock :
                Classification(r, [cleaned EXCEPT !.tok = TokenOf(rnd, ts)], ts, U)

\* The extraction settles; on success the prompt is built and the chat
\* completion is requested.
Extraction(r, rec, U) ==
  \E raw \in U.raws :
    LET ex == ExtractText(rec.file.mime, raw)
    IN IF ex.threw
         THEN Fail(r, [rec EXCEPT !.extraction = "threw"],
                   ErrorResp(ServerError, "Erro ao extrair texto do arquivo."))
         ELSE Completion(r, [rec EXCEPT !.extraction = "ok", !.texto = ex.text,
                                        !.llm = TRUE], U)

\* A request arrives: the upload middleware runs, then the handler.
Analisar(r, U) ==
  /\ Free(r)
  /\ \E file \in U.files, uid \in U.uids :
       LET up == Upload(file)
           v == Validate(up = "stored", uid, file.mime)
           rec == [IdleReq EXCEPT !.op = "analisar", !.file = file, !.uid = uid,
                                  !.fileExists = (up = "stored"),
                                  !.handler = (up # "rejected")]
       IN IF up = "rejected" THEN Fail(r, rec, FrameworkError)
          ELSE IF v = "nofile"
            THEN Fail(r, rec, ErrorResp(BadRequest, "Arquivo nao enviado."))
          ELSE IF v = "nouid"
            THEN Fail(r, rec, ErrorResp(BadRequest,
                                        "Usuario nao autenticado (uid nao enviado)."))
          ELSE IF v = "unsupported"
            THEN Fail(r, rec, ErrorResp(BadRequest, "Tipo de arquivo nao suportado."))
          ELSE Extraction(r, rec, U)
  /\ UNCHANGED sessions

\* every upload a client may send and every outcome of the awaited calls
AnyUpload ==
  [files |-> Files, uids |-> Uids, raws |-> RawExtractions,
   completions |-> {"throw", "nochoices", "ok"}, unlinks |-> BOOLEAN,
   rands |-> Rands, cls |-> ClsOutcomes, saves |-> BOOLEAN]

\* a readable PDF sent with a uid, analysed without a fault up to the save
GoodUpload ==
  [files |-> {File(PDF, 1)}, uids |-> {"u1"}, raws |-> {Text(<<"x">>)},
   completions |-> {"ok"}, unlinks |-> {TRUE},
   rands |-> {<<"a">>}, cls |-> {ClsThrow}, saves |-> {TRUE}]

\* tokens a client may present in the entitlement flow: none, or the token
\* that a submission returns (before the submission it names no record)
ClientTokens == {TokenOf(rnd, ts) : rnd \in GoodUpload.rands, ts \in Clock} \cup {NoToken}

\* ------------------------------------------ POST /api/create-checkout-session

\* The request arrives: a missing token answers 400; otherwise
\* stripe.checkout.sessions.create settles: the gateway holds a new unpaid
\* session, whose success_url names the token, and the store update is
\* requested.
CheckoutCreate(r, token, ok) ==
  /\ Free(r)
  /\ Len(sessions) < MaxSessions
  /\ LET rec == [IdleReq EXCEPT !.op = "checkout", !.token = token]
     IN IF token = NoToken
          THEN /\ Respond(r, rec, ErrorResp(BadRequest, "Token do contrato nao enviado."))
               /\ UNCHANGED sessions
          ELSE IF ok
            THEN /\ sessions' = Append(sessions, [status |-> "unpaid", token |-> token,
                                                  returned |-> FALSE])
                 /\ Step(r, [rec EXCEPT !.pc = "update", !.sid = Len(sessions) + 1])
            ELSE /\ Respond(r, [rec EXCEPT !.gatewayFailed = TRUE],
                            ErrorResp(ServerError, "Erro ao criar sessao de pagamento."))
                 /\ UNCHANGED sessions
  /\ UNCHANGED <<store, paymentTokens>>

\* (mutant of SessionFields: the record is replaced, as by set())
SessionFieldsReplacing(doc, sid) ==
  [NoDoc EXCEPT !.exists = TRUE, !.token = doc.token, !.session_id = sid]

\* the fields create-checkout updates: { session_id: session.id, pago: false }
SessionFields(doc, sid) == [doc EXCEPT !.session_id = sid, !.pago = FALSE]

\* doc(token).update(...) settles; it rejects when the document is missing.
\* On success the client gets { url: session.url }: the session's field
\* returned records that its payment page was handed out.
CheckoutUpdate(r, ok) ==
  /\ reqs[r].op = "checkout" /\ reqs[r].pc = "update"
  /\ LET rec == reqs[r]
     IN IF ok /\ store[rec.token].exists
          THEN /\ store' = [store EXCEPT ![rec.token] = SessionFields(@, rec.sid)]
               /\ sessions' = [sessions EXCEPT ![rec.sid].returned = TRUE]
               /\ Respond(r, [rec EXCEPT !.wrote = TRUE],
                          [NoResp EXCEPT !.status = OkStatus, !.json = TRUE,
                                         !.url = rec.sid])
          ELSE /\ Respond(r, rec, ErrorResp(ServerError, "Erro ao criar sessao de pagamento."))
               /\ UNCHANGED <<store, sessions>>
  /\ UNCHANGED paymentTokens

\* ------------------------------------------------- GET /api/analise-liberada

\* (mutant of SessionGate: a record without session_id goes on to the gateway)
SessionGateNoSessionCheck(doc) ==
  IF ~doc.exists THEN "notfound" ELSE "retrieve"

\* the checks on the record read before the gateway is asked
SessionGate(doc) ==
  IF ~doc.exists THEN "notfound"
  ELSE IF doc.session_id = 0 THEN "nosession"
  ELSE "retrieve"

\* The request arrives: a missing token answers 404; otherwise the read of
\* the record settles, and with a session_id the gateway is asked for the
\* session.
LiberadaGet(r, token, ok) ==
  /\ Free(r)
  /\ LET rec == [IdleReq EXCEPT !.op = "liberada", !.token = token, !.alone = TRUE,
                                !.after = (confirmed.set /\ confirmed.token = token)]
         doc == store[token]
         got == [rec EXCEPT !.read = TRUE, !.doc = doc]
     IN IF token = NoToken
          THEN RespondLiberada(r, rec, ErrorResp(NotFound, "Token invalido."))
        ELSE IF ~ok
          THEN RespondLiberada(r, rec, ErrorResp(ServerError, "Erro ao consultar pagamento."))
        ELSE IF SessionGate(doc) = "notfound"
          THEN RespondLiberada(r, got, ErrorResp(NotFound, "Token invalido."))
        ELSE IF SessionGate(doc) = "nosession"
          THEN RespondLiberada(r, got, ErrorResp(BadRequest,
                                                 "Sessao de pagamento nao encontrada."))
        ELSE StepLiberada(r, [rec EXCEPT !.pc = "retrieve", !.read = TRUE,
                                         !.sid = doc.session_id,
                                         !.queried = TRUE], token)
  /\ UNCHANGED <<store, sessions, paymentTokens>>

\* (mutant of PaymentStatus: every issued session is reported as paid)
PaymentStatusAlwaysPaid(sid) ==
  IF sid \in DOMAIN sessions THEN "paid" ELSE "missing"

\* stripe.checkout.sessions.retrieve(id).payment_status; an id the gateway
\* never issued rejects
PaymentStatus(sid) ==
  IF sid \in DOMAIN sessions THEN sessions[sid].status ELSE "missing"

\* (mutant of AfterRetrieve: a retrieval that rejects counts as paid)
AfterRetrieveFailOpen(ok, st) ==
  IF ~ok \/ st = "missing" \/ st = "paid" THEN "update" ELSE "unpaid"

\* what release-check does once the retrieval settled: the catch block when
\* it rejected, the update when the session is paid, { liberado: false }
\* otherwise
AfterRetrieve(ok, st) ==
  IF ~ok \/ st = "missing" THEN "error"
  ELSE IF st = "paid" THEN "update"
  ELSE "unpaid"

\* The retrieval settles: a paid session requests the update { pago: true },
\* any other answers { liberado: false }.
LiberadaRetrieve(r, ok) ==
  /\ reqs[r].op = "liberada" /\ reqs[r].pc = "retrieve"
  /\ LET st == PaymentStatus(reqs[r].sid)
         rec == [reqs[r] EXCEPT !.gatewayFailed = (~ok \/ st = "missing")]
         todo == AfterRetrieve(ok, st)
     IN IF todo = "error"
          THEN RespondLiberada(r, rec, ErrorResp(ServerError, "Erro ao consultar pagamento."))
        ELSE IF todo = "update" THEN StepLiberada(r, [rec EXCEPT !.pc = "update"], rec.token)
        ELSE RespondLiberada(r, rec, [NoResp EXCEPT !.status = OkStatus, !.json = TRUE,
                                                    !.liberado = FALSE])
  /\ UNCHANGED <<store, sessions, paymentTokens>>

\* (mutant of PaidFields: the update consumes the session)
PaidFieldsDropSession(doc) == [doc EXCEPT !.pago = TRUE, !.session_id = 0]

\* the field release-check updates: { pago: true }
PaidFields(doc) == [doc EXCEPT !.pago = TRUE]

\* The update settles; it rejects when the document is missing.
LiberadaUpdate(r, ok) ==
  /\ reqs[r].op = "liberada" /\ reqs[r].pc = "update"
  /\ LET rec == reqs[r]
         kept == confirmed.set /\ confirmed.token = rec.token
         done == [rec EXCEPT !.pc = "done", !.wrote = TRUE,
                             !.resp = [NoResp EXCEPT !.status = OkStatus, !.json = TRUE,
                                                     !.liberado = TRUE]]
     IN IF ok /\ store[rec.token].exists
          THEN /\ store' = [store EXCEPT ![rec.token] = PaidFields(@)]
               /\ reqs' = Slots(r, done, kept)
               /\ confirmed' = IF kept THEN confirmed
                               ELSE IF rec.alone
                                 THEN [set |-> TRUE, token |-> rec.token, store |-> store']
                               ELSE NoConfirm
          ELSE /\ RespondLiberada(r, rec, ErrorResp(ServerError, "Erro ao consultar pagamento."))
               /\ UNCHANGED store
  /\ UNCHANGED <<sessions, paymentTokens>>

\* ------------------------------------------------- GET /api/analise-por-token

\* (mutant of PaidGate: the in-memory map is asked first)
PaidGateConsultingMap(doc) ==
  IF ~doc.exists THEN ErrorResp(NotFound, "Analise nao encontrada.")
  ELSE IF doc.token \notin paymentTokens \/ ~doc.pago
    THEN ErrorResp(Forbidden, "Pagamento nao confirmado.")
  ELSE [NoResp EXCEPT !.status = OkStatus, !.json = TRUE, !.analise = doc]

\* (mutant of PaidGate: the paid flag is not checked)
PaidGateNoPaidCheck(doc) ==
  IF ~doc.exists THEN ErrorResp(NotFound, "Analise nao encontrada.")
  ELSE [NoResp EXCEPT !.status = OkStatus, !.json = TRUE, !.analise = doc]

\* the answer of fetch-by-token for the record read
PaidGate(doc) ==
  IF ~doc.exists THEN ErrorResp(NotFound, "Analise nao encontrada.")
  ELSE IF ~doc.pago THEN ErrorResp(Forbidden, "Pagamento nao confirmado.")
  ELSE [NoResp EXCEPT !.status = OkStatus, !.json = TRUE, !.analise = doc]

\* The request arrives: a missing token answers 400; otherwise the read of
\* the record settles and the request is answered.
PorToken(r, token, ok) ==
  /\ Free(r)
  /\ LET rec == [IdleReq EXCEPT !.op = "porToken", !.token = token]
         doc == store[token]
     IN IF token = NoToken
          THEN Respond(r, rec, ErrorResp(BadRequest, "Token nao enviado."))
        ELSE IF ~ok
          THEN Respond(r, rec, ErrorResp(ServerError, "Erro ao buscar analise."))
        ELSE Respond(r, [rec EXCEPT !.read = TRUE, !.doc = doc], PaidGate(doc))
  /\ UNCHANGED <<store, sessions, paymentTokens>>

\* ------------------------------------------------ POST /api/resumir-clausulas

\* what the chat completion of the classification may do: throw, answer
\* with text that holds no JSON, or answer with JSON
ResumirOutcomes == {"throw", "unparseable", "json"}

\* The classification endpoint: a body without clausulas answers 400;
\* otherwise the chat completion settles and its answer is parsed.  The
\* handler reads and writes nothing but its request.
Resumir(r, clausulas, outcome) ==
  /\ Free(r)
  /\ LET rec == [IdleReq EXCEPT !.op = "resumir"]
     IN IF clausulas = ""
          THEN Respond(r, rec, ErrorResp(BadRequest, "Clausulas nao enviadas."))
        ELSE IF outcome = "throw"
          THEN Respond(r, rec, ErrorResp(ServerError, "Erro ao resumir clausulas."))
        ELSE IF outcome = "unparseable"
          THEN Respond(r, rec, ErrorResp(ServerError, "Erro ao interpretar resposta da IA."))
        ELSE Respond(r, [rec EXCEPT !.llm = TRUE],
                     [NoResp EXCEPT !.status = OkStatus, !.json = TRUE])
  /\ UNCHANGED <<store, sessions, paymentTokens>>

\* ------------------------------------------------------------- environment

\* The payer completes the checkout of a session, out of band.
Pay(sid) ==
  /\ sid \in DOMAIN sessions
  /\ sessions[sid].status = "unpaid"
  /\ sessions' = [sessions EXCEPT ![sid].status = "paid"]
  /\ reqs' = Slots(0, IdleReq, FALSE)
  /\ confirmed' = NoConfirm
  /\ UNCHANGED <<store, paymentTokens>>

\* The entitlement flow: well-formed uploads, and every operation on tokens.
Next ==
  \/ \E r \in Req : Analisar(r, GoodUpload)
  \/ \E r \in Req, token \in ClientTokens, ok \in BOOLEAN : CheckoutCreate(r, token, ok)
  \/ \E r \in Req, ok \in BOOLEAN : CheckoutUpdate(r, ok)
  \/ \E r \in Req, token \in ClientTokens, ok \in BOOLEAN : LiberadaGet(r, token, ok)
  \/ \E r \in Req, ok \in BOOLEAN : LiberadaRetrieve(r, ok)
  \/ \E r \in Req, ok \in BOOLEAN : LiberadaUpdate(r, ok)
  \/ \E r \in Req, token \in ClientTokens, ok \in BOOLEAN : PorToken(r, token, ok)
  \/ \E r \in Req : Resumir(r, "", "json")
  \/ \E r \in Req, outcome \in ResumirOutcomes : Resumir(r, Resposta, outcome)
  \/ \E sid \in 1..MaxSessions : Pay(sid)

Spec == Init /\ [][Next]_vars

\* The process restarts: the in-memory map starts empty again (const
\* paymentTokens = {}), the requests in flight are lost, and the store and
\* the gateway keep what they hold.
Restart ==
  /\ paymentTokens # {}
  /\ paymentTokens' = {}
  /\ reqs' = [q \in Req |-> IdleReq]
  /\ confirmed' = NoConfirm
  /\ UNCHANGED <<store, sessions>>

\* The entitlement flow across restarts of the process.
NextTokens == Next \/ Restart

SpecTokens == Init /\ [][NextTokens]_vars

\* Submit-analysis with every upload and every outcome of its awaited calls.
NextUpload == \E r \in Req : Analisar(r, AnyUpload)

SpecUpload == Init /\ [][NextUpload]_vars

\* ------------------------------------------------------------------ claims

Answered(r, op) == reqs[r].op = op /\ reqs[r].pc = "done"

\* a step in which submit-analysis stores a record
Saves == \E r \in Req : reqs'[r].op = "analisar" /\ reqs'[r].saved = "ok"

\* C1: once a record is paid it stays paid.  Stated for every step but a
\* submit-analysis that stores a record under the same token (the token
\* collision of C8): no create-checkout, release-check or fetch turns a
\* paid record unpaid.
C1_PaidIsAbsorbing ==
  [][\A t \in AllTokens : store[t].pago /\ ~Saves => store'[t].pago]_vars

\* C2: fetch-by-token answers 200, with the record, only if the record read
\* exists and is paid; it answers 403 for a record that is unpaid, 404 when
\* there is none, 400 without a token (and 500 only when the read failed);
\* the store holds the record as it was read.
C2_FetchGatedOnPaid ==
  \A r \in Req : Answered(r, "porToken") =>
    LET q == reqs[r] IN
    /\ q.token = NoToken => q.resp.status = BadRequest /\ ~q.read
    /\ q.token # NoToken /\ ~q.read => q.resp.status = ServerError
    /\ q.read =>
         /\ q.doc = store[q.token]
         /\ ~q.doc.exists => q.resp.status = NotFound
         /\ q.doc.exists /\ ~q.doc.pago => q.resp.status = Forbidden
         /\ q.doc.exists /\ q.doc.pago =>
              q.resp.status = OkStatus /\ q.resp.analise = q.doc
    /\ q.resp.status # OkStatus => q.resp.analise = NoDoc

C2_Witness ==
  \E r \in Req : Answered(r, "porToken") /\ reqs[r].resp.status = OkStatus
                 /\ reqs[r].resp.analise.pago

\* C3: a release-check that runs right after one that answered liberado =
\* true for the same token (nothing but release-checks of that token in
\* between) answers liberado = true as well, unless the store or the gateway
\* fails, and leaves the store as the first one left it.
C3_ReleaseIdempotent ==
  \A r \in Req : Answered(r, "liberada") /\ reqs[r].after =>
    /\ confirmed.set /\ confirmed.token = reqs[r].token
    /\ store = confirmed.store
    /\ reqs[r].resp.status # ServerError =>
         reqs[r].resp.status = OkStatus /\ reqs[r].resp.liberado /\ reqs[r].wrote

C3_Witness ==
  \E r \in Req : Answered(r, "liberada") /\ reqs[r].after /\ reqs[r].wrote
                 /\ reqs[r].resp.liberado

C6_FileDeletedOnEveryExit ==
  \A r \in Req : Answered(r, "analisar") /\ reqs[r].file.present => ~reqs[r].fileExists

\* C7: once the extraction and the chat completion succeeded, the save is
\* requested whatever the classification did; when the save succeeds the
\* answer is 200 with the token and the store holds the record under it;
\* after a classification that did not succeed the record's two lists are
\* empty.
C7_ClassificationIsSoft ==
  \A r \in Req : Answered(r, "analisar") /\ reqs[r].cls # "none" =>
    LET q == reqs[r] IN
    /\ q.saved # "none"
    /\ q.saved = "ok" =>
         /\ q.resp.status = OkStatus /\ q.resp.token = q.tok /\ q.tok # NoToken
         /\ q.written.exists /\ store[q.tok] = q.written
         /\ q.cls # "ok" =>
              q.written.resumoSeguras = <<>> /\ q.written.resumoRiscos = <<>>
    /\ q.saved = "failed" => q.resp.status = ServerError /\ q.resp.token = NoToken

C7_Witness ==
  \E r \in Req : Answered(r, "analisar") /\ reqs[r].cls = "throw"
                 /\ reqs[r].resp.status = OkStatus
                 /\ store[reqs[r].resp.token].exists

\* C8: no two successful submissions obtain the same token: a submission
\* that is answered with a token did not replace a record stored by another.
C8_TokensUnique ==
  \A r \in Req :
    Answered(r, "analisar") /\ reqs[r].resp.status = OkStatus => ~reqs[r].overwrote

\* C9: when the extraction returns blank text, submit-analysis answers 400
\* without requesting the chat completion, generating a token or storing a
\* record.
C9_BlankTextIs400 ==
  \A r \in Req :
    Answered(r, "analisar") /\ reqs[r].extraction = "ok" /\ Blank(reqs[r].texto) =>
    /\ reqs[r].resp.status = BadRequest
    /\ ~reqs[r].llm /\ reqs[r].tok = NoToken /\ reqs[r].saved = "none"

C11_TokenAfterPersist ==
  /\ [](\A r \in Req : Answered(r, "analisar") =>
          LET q == reqs[r] IN
          /\ q.resp.token # NoToken =>
               /\ q.resp.status = OkStatus /\ q.resp.token = q.tok
               /\ store[q.tok].exists /\ store[q.tok] = q.written
               /\ ~store[q.tok].pago /\ store[q.tok].session_id = 0
          /\ (q.extraction = "threw" \/ (q.llm /\ q.cls = "none") \/ q.saved = "failed") =>
               /\ q.resp.status = ServerError /\ q.resp.error # ""
               /\ q.resp.token = NoToken /\ q.saved # "ok")
  /\ [][\A r \in Req :
          reqs'[r].op = "analisar" /\ reqs'[r].pc = "done"
            /\ reqs'[r].resp.token = NoToken => store' = store]_vars

C11_Witness ==
  \E r \in Req : Answered(r, "analisar") /\ reqs[r].resp.token # NoToken
                 /\ store[reqs[r].resp.token].exists
                 /\ ~store[reqs[r].resp.token].pago

\* C12: in every reachable state a record that is paid has a session_id.
C12_PaidHasSession ==
  \A t \in AllTokens : store[t].exists /\ store[t].pago => store[t].session_id # 0

\* a checkout session created for token t that the gateway reports as paid
PaidSessionFor(t) ==
  \E sid \in DOMAIN sessions :
    sessions[sid].token = t /\ sessions[sid].status = "paid"

C14_PaidMatchesCurrentSession ==
  \A t \in AllTokens :
    store[t].pago /\ store[t].session_id # 0 =>
      /\ store[t].session_id \in DOMAIN sessions
      /\ sessions[store[t].session_id].status = "paid"

\* a paid checkout session whose url create-checkout returned for token t
PaidReturnedSessionFor(t) ==
  \E sid \in DOMAIN sessions :
    sessions[sid].token = t /\ sessions[sid].returned /\ sessions[sid].status = "paid"

\* C15: a release-check that starts after the payer paid a session that
\* create-checkout returned for its token, and that neither the store nor
\* the gateway fails, answers liberado = true.  (alone: no step of another
\* request, and no payment, fell between its start and its answer, so the
\* paid session it finds at the end was paid when it started.)
C15_PaymentUnlocks ==
  \A r \in Req :
    Answered(r, "liberada") /\ reqs[r].alone /\ reqs[r].queried
      /\ reqs[r].resp.status # ServerError
      /\ PaidReturnedSessionFor(reqs[r].token) =>
    reqs[r].resp.liberado

Content(doc) ==
  <<doc.exists, doc.token, doc.uid, doc.data, doc.clausulas,
    doc.resumoSeguras, doc.resumoRiscos, doc.recomendacoes>>

\* the step ends with the save of a submit-analysis under token t
SavesUnder(t) ==
  \E r \in Req : /\ reqs'[r].op = "analisar" /\ reqs'[r].pc = "done"
                 /\ reqs'[r].saved = "ok" /\ reqs'[r].tok = t

\* the step ends a request of operation op on token t
Ends(op, t) ==
  \E r \in Req : reqs'[r].op = op /\ reqs'[r].pc = "done" /\ reqs'[r].token = t

\* C17, the operations other than submit-analysis: a record comes into the
\* store only by the save of submit-analysis
\* and never leaves it; a step that is not such a save leaves the fields
\* token, uid, data, clausulas, resumoSeguras, resumoRiscos and
\* recomendacoes of every record as they are; it changes a record only as
\* the end of a create-checkout (session_id and pago) or of a release-check
\* (pago) of its token; a create-checkout that ends on a token without
\* record answers with an error.
C17_OthersKeepRecords ==
  [][\A t \in AllTokens :
       /\ store[t].exists => store'[t].exists
       /\ ~store[t].exists /\ store'[t].exists => SavesUnder(t)
       /\ ~SavesUnder(t) =>
            /\ Content(store'[t]) = Content(store[t])
            /\ store'[t] # store[t] =>
                 \/ Ends("checkout", t)
                 \/ /\ Ends("liberada", t)
                    /\ store'[t].session_id = store[t].session_id
       /\ \A r \in Req :
            /\ reqs'[r].op = "checkout" /\ reqs'[r].pc = "done"
            /\ reqs[r].pc = "update" /\ reqs'[r].token = t /\ ~store[t].exists
            => reqs'[r].resp.status = ServerError /\ ~store'[t].exists]_vars

C17_OthersWitness ==
  \E t \in AllTokens :
    /\ store[t].exists /\ store[t].pago /\ store[t].session_id # 0
    /\ store[t].uid = "u1" /\ store[t].clausulas = Resposta
    /\ \E r \in Req : Answered(r, "liberada") /\ reqs[r].wrote /\ reqs[r].token = t

\* C17: the fields token, uid, data, clausulas, resumoSeguras, resumoRiscos
\* and recomendacoes of an existing record are never changed.
C17_RecordsNeverChange ==
  [][\A t \in AllTokens :
       store[t].exists => Content(store'[t]) = Content(store[t])]_vars

\* C18: a create-checkout whose session creation rejects, and a
\* release-check whose session retrieval rejects, answer 500 without having
\* written, and the step that answers leaves the store (session_id and pago
\* of every record) as it was.
C18_GatewayFaultKeepsStore ==
  /\ [](\A r \in Req : reqs[r].gatewayFailed =>
          /\ reqs[r].pc = "done" /\ ~reqs[r].wrote
          /\ reqs[r].resp.status = ServerError /\ ~reqs[r].resp.liberado)
  /\ [][\A r \in Req : reqs'[r].gatewayFailed => store' = store]_vars

C18_Witness ==
  \E r \in Req : /\ Answered(r, "liberada") /\ reqs[r].gatewayFailed
                 /\ store[reqs[r].token].session_id = reqs[r].sid
                 /\ sessions[reqs[r].sid].status = "paid"
                 /\ ~store[reqs[r].token].pago

\* C19: every record that submit-analysis saved carries the advisory text
\* in recomendacoes, whatever the classification did.
C19_AdviceAlwaysSaved ==
  \A r \in Req :
    Answered(r, "analisar") /\ reqs[r].saved = "ok" =>
      /\ reqs[r].written.recomendacoes = Advice
      /\ store[reqs[r].tok].recomendacoes = Advice

====
